---- MODULE Spec2Model ----
(***************************************************************************)
(* Model of the curriculum parser (ItmoParser.parse_pdf_curriculum), the   *)
(* curriculum value (ProgramCurriculum) and the recommendation service     *)
(* (RecommendationService.recommend_electives / get_study_plan).           *)
(*                                                                         *)
(* Python values are modelled as follows: a list is a sequence, a dict is  *)
(* a function, an Optional[int] is a sequence of length 0 (None) or 1, and *)
(* a call ends in a record that says whether it returned or raised.        *)
(***************************************************************************)
EXTENDS Integers, Sequences, FiniteSets, TLC

VARIABLES
    curricula,          \* RecommendationService.curricula: program id -> ProgramCurriculum
    engine,             \* the RecommendationService instance: whether __init__ produced it, and its index
    call,               \* the last service call: operation and arguments
    ret,                \* what that call returned or raised
    lines,              \* parse_pdf_curriculum: the lines the loop has processed so far
    program_name,       \* its program_name (the caller's, until a line overwrites it)
    current_semester,   \* its current_semester: <<>> for None, <<n>> for the integer n
    current_category,   \* its current_category: "None", "compulsory" or "elective"
    courses,            \* its courses list
    parsed,             \* what the parse returned or raised, once the loop has ended
    caller_name,        \* the program_name argument as the caller passed it
    earlier,            \* the previous parse_pdf_curriculum call: its text, argument and outcome
    conversation,       \* ConversationHandler's state of the chat: "END", "PROGRAM", "BACKGROUND", "QUESTIONS"
    chat_data,          \* context.chat_data of the chat: key -> value
    handled             \* the last update of the chat and what its handler did

serviceVars == <<curricula, engine, call, ret>>
parserVars == <<lines, program_name, current_semester, current_category, courses, parsed,
                caller_name, earlier>>
botVars == <<conversation, chat_data, handled>>
vars == <<curricula, engine, call, ret, lines, program_name, current_semester,
          current_category, courses, parsed, caller_name, earlier,
          conversation, chat_data, handled>>

\* ------------------------------------------------------------------ bounds

\* longest curriculum that is enumerated course by course
MaxCourses == 2
\* length of the long curricula (more electives than the study plan pulls)
LongLen == 24
\* largest duration_semesters of a curriculum that is not derived from its courses
MaxDuration == 3
\* longest line sequence handed to the parser
MaxLines == 4
\* the longest text that is parsed a second time
MaxReparseLines == 3
\* the most reply_text calls one handler run makes
MaxReplies == 5

\* ------------------------------------------------------------------ helpers

Min(a, b) == IF a <= b THEN a ELSE b
Max(a, b) == IF a >= b THEN a ELSE b

\* s is an initial segment of t
IsPrefix(s, t) == Len(s) <= Len(t) /\ SubSeq(t, 1, Len(s)) = s

\* ------------------------------------------------------------------ courses

\* Course(id, name, semester, credits, is_compulsory, prerequisites, description, workload_hours)
Course(id, name, semester, is_compulsory, workload_hours) ==
    [id |-> id, name |-> name, semester |-> semester, credits |-> 0,
     is_compulsory |-> is_compulsory, prerequisites |-> <<>>,
     description |-> "None", workload_hours |-> workload_hours]

\* the courses curricula are made of
DataEngineering == Course("1", "Data Engineering", 1, TRUE, 108)
MachineLearning == Course("2", "Machine Learning", 1, FALSE, 108)
Leadership == Course("3", "Leadership", 2, FALSE, 54)
DataAnalysis == Course("1", "Data Analysis.", 1, FALSE, 54)
MachinesForData == Course("2", "Machines for Data", 2, FALSE, 108)

CourseUniverse ==
    { DataEngineering, MachineLearning, Leadership, DataAnalysis, MachinesForData }

\* ProgramCurriculum(program_name, courses, total_credits, duration_semesters)
ProgramCurriculum(name, cs, credits, duration) ==
    [program_name |-> name, courses |-> cs,
     total_credits |-> credits, duration_semesters |-> duration]

\* min in place of max
MaxSemester_Min(cs) ==
    IF cs = <<>> THEN 0
    ELSE CHOOSE m \in { cs[i].semester : i \in 1..Len(cs) } :
             \A i \in 1..Len(cs) : cs[i].semester >= m

\* max(c.semester for c in courses) if courses else 0
MaxSemester(cs) ==
    IF cs = <<>> THEN 0
    ELSE CHOOSE m \in { cs[i].semester : i \in 1..Len(cs) } :
             \A i \in 1..Len(cs) : cs[i].semester <= m

\* get_electives without its filter: every course is returned
get_electives_Unfiltered(program) == program.courses

\* return [course for course in self.courses if not course.is_compulsory]
\* (a list comprehension keeps the order of self.courses)
get_electives(program) ==
    SelectSeq(program.courses, LAMBDA c : ~c.is_compulsory)

\* return [course for course in self.courses
\*         if course.is_compulsory and course.semester == semester]
get_compulsory_courses_by_semester(program, semester) ==
    SelectSeq(program.courses, LAMBDA c : c.is_compulsory /\ c.semester = semester)

\* return [course for course in self.courses if course.semester == semester]
get_courses_by_semester(program, semester) ==
    SelectSeq(program.courses, LAMBDA c : c.semester = semester)

\* the electives of the whole program, whatever the semester
get_electives_by_semester_AnySemester(program, semester) ==
    SelectSeq(program.courses, LAMBDA c : ~c.is_compulsory)

\* return [course for course in self.courses
\*         if not course.is_compulsory and course.semester == semester]
get_electives_by_semester(program, semester) ==
    SelectSeq(program.courses, LAMBDA c : ~c.is_compulsory /\ c.semester = semester)

\* sum(course.credits for course in <list>)
RECURSIVE SumCredits(_)
SumCredits(cs) ==
    IF cs = <<>> THEN 0 ELSE Head(cs).credits + SumCredits(Tail(cs))

\* sum(course.workload_hours for course in <list>)
RECURSIVE SumWorkload(_)
SumWorkload(cs) ==
    IF cs = <<>> THEN 0 ELSE Head(cs).workload_hours + SumWorkload(Tail(cs))

\* courses_in_semester = self.get_courses_by_semester(semester)
\* return sum(course.credits for course in courses_in_semester)
get_semester_credits(program, semester) ==
    SumCredits(get_courses_by_semester(program, semester))

\* courses_in_semester = self.get_courses_by_semester(semester)
\* return sum(course.workload_hours for course in courses_in_semester)
get_semester_workload(program, semester) ==
    SumWorkload(get_courses_by_semester(program, semester))

\* the loop that keeps going and returns the last course with the id
RECURSIVE find_course_by_id_Last(_, _)
find_course_by_id_Last(cs, course_id) ==
    IF cs = <<>> THEN <<>>
    ELSE IF find_course_by_id_Last(Tail(cs), course_id) # <<>>
    THEN find_course_by_id_Last(Tail(cs), course_id)
    ELSE IF Head(cs).id = course_id THEN <<Head(cs)>>
    ELSE <<>>

\* for course in self.courses: if course.id == course_id: return course
\* return None -- <<course>> for a course, <<>> for None
RECURSIVE find_course_by_id(_, _)
find_course_by_id(cs, course_id) ==
    IF cs = <<>> THEN <<>>
    ELSE IF Head(cs).id = course_id THEN <<Head(cs)>>
    ELSE find_course_by_id(Tail(cs), course_id)

\* ------------------------------------------------------------------ keyword index

\* str.lower() on the words of the configuration and of the course names
Lower(word) ==
    CASE word = "Machine"     -> "machine"
      [] word = "Machines"    -> "machines"
      [] word = "Learning"    -> "learning"
      [] word = "Leadership"  -> "leadership"
      [] word = "Data"        -> "data"
      [] word = "Engineering" -> "engineering"
      [] word = "Analysis"    -> "analysis"
      [] OTHER                -> word

\* pymorphy3's normal_form of a lower-case word (the words of this model)
NormalForm(word) ==
    CASE word = "machines" -> "machine"
      [] OTHER             -> word

\* self.morph.parse(word.lower())[0].normal_form
normalize_word(word) == NormalForm(Lower(word))

\* re.sub(r"[^\w\s]", "", text.lower()).split() for the course names of this model:
\* punctuation is deleted (not replaced by a space), then the text is split on spaces
CleanSplit(text) ==
    CASE text = "Data Engineering"  -> <<"data", "engineering">>
      [] text = "Machine Learning"  -> <<"machine", "learning">>
      [] text = "Leadership"        -> <<"leadership">>
      [] text = "Data Analysis."    -> <<"data", "analysis">>
      [] text = "Machines for Data" -> <<"machines", "for", "data">>
      [] OTHER                      -> <<>>

normalize_text_to_set(text) ==
    { normalize_word(CleanSplit(text)[i]) : i \in 1..Len(CleanSplit(text)) }

\* the knowledge_areas mapping of the YAML configuration, and its key order
knowledge_areas ==
    [area \in {"ai", "data"} |->
        IF area = "ai" THEN <<"Machine", "machines">> ELSE <<"Data">>]

AreaOrder == <<"ai", "data">>

\* {area: {normalize(kw) for kw in keywords}}
lemmatized_areas ==
    [area \in DOMAIN knowledge_areas |->
        { normalize_word(knowledge_areas[area][i]) : i \in 1..Len(knowledge_areas[area]) }]

\* the index __init__ builds from a loaded mapping
LemmatizeAreas(areas) ==
    [area \in DOMAIN areas |->
        { normalize_word(areas[area][i]) : i \in 1..Len(areas[area]) }]

\* what the file at config_path can be: a mapping with the knowledge_areas
\* key, no file, a file open() is refused, text that is not YAML, an empty
\* document (safe_load gives None), a mapping without the key
ConfigSources == {"ok", "missing", "unreadable", "malformed", "empty", "no_key"}

\* a loader that answers a missing file with an empty mapping
_load_config_Swallow(source) ==
    CASE source = "missing"    -> [kind |-> "return", value |-> <<>>, error |-> "", opens |-> 1]
      [] source = "unreadable" -> [kind |-> "raise", value |-> <<>>, error |-> "PermissionError", opens |-> 1]
      [] source = "malformed"  -> [kind |-> "raise", value |-> <<>>, error |-> "YAMLError", opens |-> 1]
      [] source = "empty"      -> [kind |-> "raise", value |-> <<>>, error |-> "AttributeError", opens |-> 1]
      [] source = "no_key"     -> [kind |-> "return", value |-> <<>>, error |-> "", opens |-> 1]
      [] OTHER                 -> [kind |-> "return", value |-> knowledge_areas, error |-> "", opens |-> 1]

\* _load_config: open() once, safe_load, config.get("knowledge_areas", {});
\* FileNotFoundError is caught and raised again, nothing else is caught.
\* opens counts the open() calls
_load_config(source) ==
    CASE source = "missing"    -> [kind |-> "raise", value |-> <<>>, error |-> "FileNotFoundError", opens |-> 1]
      [] source = "unreadable" -> [kind |-> "raise", value |-> <<>>, error |-> "PermissionError", opens |-> 1]
      [] source = "malformed"  -> [kind |-> "raise", value |-> <<>>, error |-> "YAMLError", opens |-> 1]
      [] source = "empty"      -> [kind |-> "raise", value |-> <<>>, error |-> "AttributeError", opens |-> 1]
      [] source = "no_key"     -> [kind |-> "return", value |-> <<>>, error |-> "", opens |-> 1]
      [] OTHER                 -> [kind |-> "return", value |-> knowledge_areas, error |-> "", opens |-> 1]

\* no RecommendationService has been constructed
NoEngine == [state |-> "none", lemmatized_areas |-> <<>>, opens |-> 0]

\* __init__ raised: the caller holds no instance
FailedEngine(opens) == [state |-> "failed", lemmatized_areas |-> <<>>, opens |-> opens]

\* __init__ returned: the instance and its index
ReadyEngine(areas, opens) ==
    [state |-> "ready", lemmatized_areas |-> LemmatizeAreas(areas), opens |-> opens]

\* ------------------------------------------------------------------ call results

\* no call has been made yet
NoCall == [kind |-> "none", list |-> <<>>, plan |-> <<>>, error |-> "", path |-> ""]

\* `return <list>`; path names the return statement that was taken
ReturnList(list, path) ==
    [kind |-> "return", list |-> list, plan |-> <<>>, error |-> "", path |-> path]

\* `return <dict>`
ReturnPlan(plan, path) ==
    [kind |-> "return", list |-> <<>>, plan |-> plan, error |-> "", path |-> path]

\* `raise <error>`: the call yields no value
Raise(error) ==
    [kind |-> "raise", list |-> <<>>, plan |-> <<>>, error |-> error, path |-> "raise"]

\* `return <value>` of a method that returns a number or an Optional[Course]
ReturnValue(value) ==
    [kind |-> "return", list |-> <<>>, plan |-> <<>>, error |-> "", path |-> "return",
     value |-> value]

\* ------------------------------------------------------------------ recommend_electives

\* max_courses: int = 5
DefaultMaxCourses == 5

\* max_courses=10 in get_study_plan
TopPull == 10

\* 5 - user_score
MaxLevel == 5

\* background.get(area, 0)
BackgroundGet(background, area) ==
    IF area \in DOMAIN background THEN background[area] ELSE 0

\* not lemmatized_keywords.isdisjoint(course_words)
Matches(area, course_words) == lemmatized_areas[area] \cap course_words # {}

\* the area loop with the deepen branch computing what the broaden branch computes
RECURSIVE ScoreAreas_DeepenSubtracts(_, _, _, _, _)
ScoreAreas_DeepenSubtracts(areas, score, course_words, background, strategy) ==
    IF areas = <<>> THEN [raised |-> FALSE, score |-> score]
    ELSE IF Matches(Head(areas), course_words)
         THEN LET user_score == BackgroundGet(background, Head(areas))
              IN  IF strategy = "deepen"
                  THEN ScoreAreas_DeepenSubtracts(Tail(areas), score + (MaxLevel - user_score),
                              course_words, background, strategy)
                  ELSE IF strategy = "broaden"
                  THEN ScoreAreas_DeepenSubtracts(Tail(areas), score + (MaxLevel - user_score),
                              course_words, background, strategy)
                  ELSE [raised |-> TRUE, score |-> score]
         ELSE ScoreAreas_DeepenSubtracts(Tail(areas), score, course_words, background, strategy)

\* the area loop with the broaden branch computing what the deepen branch computes
RECURSIVE ScoreAreas_BroadenAdds(_, _, _, _, _)
ScoreAreas_BroadenAdds(areas, score, course_words, background, strategy) ==
    IF areas = <<>> THEN [raised |-> FALSE, score |-> score]
    ELSE IF Matches(Head(areas), course_words)
         THEN LET user_score == BackgroundGet(background, Head(areas))
              IN  IF strategy = "deepen"
                  THEN ScoreAreas_BroadenAdds(Tail(areas), score + user_score,
                              course_words, background, strategy)
                  ELSE IF strategy = "broaden"
                  THEN ScoreAreas_BroadenAdds(Tail(areas), score + user_score,
                              course_words, background, strategy)
                  ELSE [raised |-> TRUE, score |-> score]
         ELSE ScoreAreas_BroadenAdds(Tail(areas), score, course_words, background, strategy)

\* the loop `for area, lemmatized_keywords in self.lemmatized_areas.items()` from
\* the areas still to visit and the score so far; raised when the else branch ran
RECURSIVE ScoreAreas(_, _, _, _, _)
ScoreAreas(areas, score, course_words, background, strategy) ==
    IF areas = <<>> THEN [raised |-> FALSE, score |-> score]
    ELSE IF Matches(Head(areas), course_words)
         THEN LET user_score == BackgroundGet(background, Head(areas))
              IN  IF strategy = "deepen"
                  THEN ScoreAreas(Tail(areas), score + user_score,
                                  course_words, background, strategy)
                  ELSE IF strategy = "broaden"
                  THEN ScoreAreas(Tail(areas), score + (MaxLevel - user_score),
                                  course_words, background, strategy)
                  ELSE [raised |-> TRUE, score |-> score]
         ELSE ScoreAreas(Tail(areas), score, course_words, background, strategy)

\* the loop `for course in electives`, from the electives still to visit and the
\* scored_courses list so far
RECURSIVE ScoreLoop(_, _, _, _)
ScoreLoop(electives, scored_courses, background, strategy) ==
    IF electives = <<>> THEN [raised |-> FALSE, scored_courses |-> scored_courses]
    ELSE LET course == Head(electives)
             r == ScoreAreas(AreaOrder, 0, normalize_text_to_set(course.name),
                             background, strategy)
         IN  IF r.raised THEN [raised |-> TRUE, scored_courses |-> scored_courses]
             ELSE ScoreLoop(Tail(electives),
                            IF r.score > 0
                            THEN Append(scored_courses,
                                        [course |-> course, score |-> r.score])
                            ELSE scored_courses,
                            background, strategy)

\* an unstable descending sort: x goes in front of the entries of equal score
InsertDesc_Unstable(sorted, x) ==
    LET k == Cardinality({ i \in 1..Len(sorted) : sorted[i].score > x.score })
    IN  SubSeq(sorted, 1, k) \o <<x>> \o SubSeq(sorted, k + 1, Len(sorted))

\* where list.sort(key=score, reverse=True) leaves x among the already placed
\* entries: behind every entry whose score is not smaller (the sort is stable)
InsertDesc(sorted, x) ==
    LET k == Cardinality({ i \in 1..Len(sorted) : sorted[i].score >= x.score })
    IN  SubSeq(sorted, 1, k) \o <<x>> \o SubSeq(sorted, k + 1, Len(sorted))

\* scored_courses.sort(key=lambda x: x[1], reverse=True)
RECURSIVE SortDesc(_, _)
SortDesc(sorted, rest) ==
    IF rest = <<>> THEN sorted
    ELSE SortDesc(InsertDesc(sorted, Head(rest)), Tail(rest))

\* a slice that keeps one entry too many
Slice_OffByOne(list, n) ==
    IF n >= 0 THEN SubSeq(list, 1, Min(n + 1, Len(list)))
    ELSE SubSeq(list, 1, Max(0, Len(list) + n + 1))

\* list[:n]: the first n entries, or all but the last -n when n is negative
Slice(list, n) ==
    IF n >= 0 THEN SubSeq(list, 1, Min(n, Len(list)))
    ELSE SubSeq(list, 1, Max(0, Len(list) + n))

\* recommend_electives from `electives = program.get_electives()` on
RankElectives(program, background, max_courses, strategy) ==
    LET electives == get_electives(program)
        loop == ScoreLoop(electives, <<>>, background, strategy)
        ranked == SortDesc(<<>>, loop.scored_courses)
    IN  IF loop.raised THEN Raise("ValueError")
        ELSE ReturnList(Slice([i \in 1..Len(ranked) |-> ranked[i].course], max_courses),
                        "ranked")

\* self.curricula[program_id] in place of self.curricula.get(program_id)
recommend_electives_KeyError(cur, program_id, background, max_courses, strategy) ==
    IF program_id \notin DOMAIN cur THEN Raise("KeyError")
    ELSE RankElectives(cur[program_id], background, max_courses, strategy)

\* program = self.curricula.get(program_id); if not program: return []
\* (a ProgramCurriculum is always truthy)
recommend_electives(cur, program_id, background, max_courses, strategy) ==
    IF program_id \notin DOMAIN cur THEN ReturnList(<<>>, "unknown_program")
    ELSE RankElectives(cur[program_id], background, max_courses, strategy)

\* ------------------------------------------------------------------ get_study_plan

\* a plan that leaves out the semesters without courses
PlanSet_SkipEmpty(plan, semester, semester_courses) ==
    IF semester_courses = <<>> THEN plan ELSE (semester :> semester_courses) @@ plan

\* plan[semester] = semester_courses
PlanSet(plan, semester, semester_courses) == (semester :> semester_courses) @@ plan

\* the loop `for semester in range(1, program.duration_semesters + 1)`
RECURSIVE PlanLoop(_, _, _, _)
PlanLoop(semester, plan, program, recommended_electives) ==
    IF semester > program.duration_semesters THEN plan
    ELSE LET semester_courses ==
                 get_compulsory_courses_by_semester(program, semester)
                 \o SelectSeq(recommended_electives, LAMBDA e : e.semester = semester)
         IN  PlanLoop(semester + 1, PlanSet(plan, semester, semester_courses),
                      program, recommended_electives)

\* get_study_plan from `plan = {}` on; an error of the pull propagates
BuildPlan(program, recommended) ==
    IF recommended.kind = "raise" THEN recommended
    ELSE ReturnPlan(PlanLoop(1, <<>>, program, recommended.list), "plan")

\* an accessor that hands out the curriculum's own list, self.courses
semester_courses_object_SelfCourses(program, semester) ==
    [own |-> TRUE, value |-> program.courses]

\* the list object `semester_courses` is bound to: the list comprehension of
\* get_compulsory_courses_by_semester builds a new list, which is not the
\* curriculum's own (own: the object is program.courses itself)
semester_courses_object(program, semester) ==
    [own |-> FALSE, value |-> get_compulsory_courses_by_semester(program, semester)]

\* the program object after the loop: `semester_courses.append(elective)`
\* changes the list object semester_courses is bound to, and so the
\* program's list when that object is the program's own
RECURSIVE ProgramAfterPlanLoop(_, _, _)
ProgramAfterPlanLoop(semester, program, recommended_electives) ==
    IF semester > program.duration_semesters THEN program
    ELSE LET object == semester_courses_object(program, semester)
             appended == object.value
                         \o SelectSeq(recommended_electives, LAMBDA e : e.semester = semester)
         IN  ProgramAfterPlanLoop(
                 semester + 1,
                 IF object.own THEN [program EXCEPT !.courses = appended] ELSE program,
                 recommended_electives)

\* self.curricula after get_study_plan: recommend_electives assigns and
\* appends to its local scored_courses only, the plan loop appends to
\* semester_courses
CurriculaAfterPlan(cur, program_id, background, strategy) ==
    IF program_id \notin DOMAIN cur THEN cur
    ELSE LET recommended ==
                 recommend_electives(cur, program_id, background, TopPull, strategy)
         IN  IF recommended.kind = "raise" THEN cur
             ELSE [cur EXCEPT ![program_id] =
                       ProgramAfterPlanLoop(1, cur[program_id], recommended.list)]

\* the pull made with recommend_electives' default max_courses
get_study_plan_DefaultPull(cur, program_id, background, strategy) ==
    IF program_id \notin DOMAIN cur THEN ReturnPlan(<<>>, "unknown_program")
    ELSE BuildPlan(cur[program_id],
                   recommend_electives(cur, program_id, background,
                                       DefaultMaxCourses, strategy))

get_study_plan(cur, program_id, background, strategy) ==
    IF program_id \notin DOMAIN cur THEN ReturnPlan(<<>>, "unknown_program")
    ELSE BuildPlan(cur[program_id],
                   recommend_electives(cur, program_id, background, TopPull, strategy))

\* ------------------------------------------------------------------ parse_pdf_curriculum

\* The lines of the model. The source's markers are Cyrillic words, written
\* here in Latin letters: "OP" is the program label, "semestr" the semester
\* word, "Obyazatelnye" the compulsory label, "Pul vybornyh" and "Vybornye"
\* the elective labels.
LineUniverse ==
    { "OP AI Product", "OP Data Science", "1 semestr", "2 semestr", "0 semestr",
      "Obyazatelnye discipliny", "Pul vybornyh disciplin", "  1Course A 108 ",
      "2 semestr 54", "Uchebnyi plan" }

\* line.strip()
Strip(raw) == IF raw = "  1Course A 108 " THEN "1Course A 108" ELSE raw

\* `"OP" in line` and re.search(r"OP\s+(.+)", line): <<group(1).strip()>>, <<>> for no match
ProgramMatch(line) ==
    CASE line = "OP AI Product"   -> <<"AI Product">>
      [] line = "OP Data Science" -> <<"Data Science">>
      [] OTHER                    -> <<>>

\* re.search(r"(\d+)\s+semestr", line): <<int(group(1))>>, <<>> for no match
SemesterMatch(line) ==
    CASE line = "1 semestr"    -> <<1>>
      [] line = "2 semestr"    -> <<2>>
      [] line = "0 semestr"    -> <<0>>
      [] line = "2 semestr 54" -> <<2>>
      [] OTHER                 -> <<>>

\* "Obyazatelnye" in line
ContainsCompulsory(line) == line = "Obyazatelnye discipliny"

\* "Pul vybornyh" in line or "Vybornye" in line
ContainsElective(line) == line = "Pul vybornyh disciplin"

\* re.search(r"^(\d+)([^\d].+?)\s+(\d+)$", line): the code, the stripped name
\* and the hours, <<>> for no match
CourseMatch(line) ==
    CASE line = "1Course A 108" ->
             <<[code |-> "1", name |-> "Course A", hours |-> 108]>>
      [] line = "2 semestr 54"  ->
             <<[code |-> "2", name |-> "semestr", hours |-> 54]>>
      [] OTHER                  -> <<>>

\* `is not None` in place of the truth value: 0 counts as a semester
Truthy_NotNone(optional) == optional # <<>>

\* Python's truth value of an Optional[int]: None and 0 are false
Truthy(optional) == optional # <<>> /\ optional[1] # 0

\* the first extracted name stays: a later program-name line is ignored
NextProgramName_FirstWins(name, line) ==
    IF ProgramMatch(line) # <<>> /\ name \in {"AI", "AI Product"}
    THEN ProgramMatch(line)[1] ELSE name

\* program_name after the "Detect program name" step
NextProgramName(name, line) ==
    IF ProgramMatch(line) # <<>> THEN ProgramMatch(line)[1] ELSE name

\* current_semester after the "Detect semester" step
NextSemester(semester, line) ==
    IF SemesterMatch(line) # <<>> THEN SemesterMatch(line) ELSE semester

\* a parser that forgets the category at every semester marker
NextCategory_ResetAtSemester(category, line) ==
    IF ContainsCompulsory(line) THEN "compulsory"
    ELSE IF ContainsElective(line) THEN "elective"
    ELSE IF SemesterMatch(line) # <<>> THEN "None"
    ELSE category

\* current_category after the "Detect category" step
NextCategory(category, line) ==
    IF ContainsCompulsory(line) THEN "compulsory"
    ELSE IF ContainsElective(line) THEN "elective"
    ELSE category

\* the emission with is_compulsory taken from the wrong category
NextCourses_ElectiveFlag(cs, semester, category, line) ==
    IF Truthy(semester) /\ category # "None" /\ CourseMatch(line) # <<>>
    THEN LET m == CourseMatch(line)[1]
         IN  Append(cs, Course(m.code, m.name, semester[1],
                               category = "elective", m.hours))
    ELSE cs

\* courses after the "Parse course lines" step, under the state the earlier
\* steps of the same pass have left
NextCourses(cs, semester, category, line) ==
    IF Truthy(semester) /\ category # "None" /\ CourseMatch(line) # <<>>
    THEN LET m == CourseMatch(line)[1]
         IN  Append(cs, Course(m.code, m.name, semester[1],
                               category = "compulsory", m.hours))
    ELSE cs

\* the parse has not ended
NoParse == [kind |-> "none", curriculum |-> ProgramCurriculum("", <<>>, 0, 0),
            error |-> ""]

\* the post-loop code without `if not courses: raise`
FinishParse_NoCheck(name, cs) ==
    [kind |-> "return", error |-> "",
     curriculum |-> ProgramCurriculum(name, cs, 0, MaxSemester(cs))]

\* if not courses: raise ValueError(...); return ProgramCurriculum(...)
FinishParse(name, cs) ==
    IF cs = <<>>
    THEN [kind |-> "raise", curriculum |-> ProgramCurriculum("", <<>>, 0, 0),
          error |-> "ValueError"]
    ELSE [kind |-> "return", error |-> "",
          curriculum |-> ProgramCurriculum(name, cs, 0, MaxSemester(cs))]

\* no update of the chat has been handled
NoUpdate ==
    [update |-> "none", handler |-> "none", outcome |-> "none", from |-> "END",
     called |-> FALSE, recommended |-> <<>>, excepted |-> FALSE]

\* the chat before its first update: no conversation, empty chat data
BotIdle ==
    /\ conversation = "END"
    /\ chat_data = <<>>
    /\ handled = NoUpdate

\* no parse_pdf_curriculum call has returned or raised yet
NoEarlier == [kind |-> "none", lines |-> <<>>, name |-> "", outcome |-> NoParse]

\* the parser's variables while no parse runs
ParserIdle ==
    /\ lines = <<>>
    /\ program_name = ""
    /\ current_semester = <<>>
    /\ current_category = "None"
    /\ courses = <<>>
    /\ parsed = NoParse
    /\ caller_name = ""
    /\ earlier = NoEarlier

\* the program names get_all_programs passes
CallerNames == {"AI", "AI Product"}

\* the state at `for line in lines`
InitParser ==
    /\ lines = <<>>
    /\ caller_name \in CallerNames
    /\ program_name = caller_name
    /\ earlier = NoEarlier
    /\ current_semester = <<>>
    /\ current_category = "None"
    /\ courses = <<>>
    /\ parsed = NoParse
    /\ curricula = <<>>
    /\ engine = NoEngine
    /\ BotIdle
    /\ call = [op |-> "none"]
    /\ ret = NoCall

\* the lines the text can hold at the loop's position: any line in a first
\* call, the line of the earlier text when the same text is parsed again
TextLines ==
    IF earlier.kind = "none" THEN LineUniverse
    ELSE IF Len(lines) < Len(earlier.lines) THEN {earlier.lines[Len(lines) + 1]}
    ELSE {}

\* the text may end at the loop's position
TextMayEnd == earlier.kind = "none" \/ Len(lines) = Len(earlier.lines)

\* one pass of the loop, over the next line of the text
ReadLine ==
    \E raw \in TextLines :
        LET line == Strip(raw)
            semester == NextSemester(current_semester, line)
            category == NextCategory(current_category, line)
        IN  /\ parsed.kind = "none"
            /\ Len(lines) < MaxLines
            /\ lines' = Append(lines, raw)
            /\ program_name' = NextProgramName(program_name, line)
            /\ current_semester' = semester
            /\ current_category' = category
            /\ courses' = NextCourses(courses, semester, category, line)
            /\ UNCHANGED <<parsed, caller_name, earlier, curricula, engine, call, ret, botVars>>

\* the text has no further line: the code behind the loop
EndOfLines ==
    /\ parsed.kind = "none"
    /\ TextMayEnd
    /\ parsed' = FinishParse(program_name, courses)
    /\ UNCHANGED <<lines, program_name, current_semester, current_category, courses,
                   caller_name, earlier, curricula, engine, call, ret, botVars>>

NextParser == ReadLine \/ EndOfLines

SpecParser == InitParser /\ [][NextParser]_vars

\* a second call whose current_semester and current_category are left over
\* from the call before
ParseAgain_KeepsMarkers ==
    /\ parsed.kind # "none"
    /\ earlier.kind = "none"
    /\ Len(lines) <= MaxReparseLines
    /\ earlier' = [kind |-> "done", lines |-> lines, name |-> caller_name,
                   outcome |-> parsed]
    /\ lines' = <<>>
    /\ program_name' = caller_name
    /\ courses' = <<>>
    /\ parsed' = NoParse
    /\ UNCHANGED <<current_semester, current_category, caller_name,
                   curricula, engine, call, ret, botVars>>

\* the caller calls parse_pdf_curriculum again with the same pdf_content and
\* program_name: the parameters and locals of the new call are fresh
ParseAgain ==
    /\ parsed.kind # "none"
    /\ earlier.kind = "none"
    /\ Len(lines) <= MaxReparseLines
    /\ earlier' = [kind |-> "done", lines |-> lines, name |-> caller_name,
                   outcome |-> parsed]
    /\ lines' = <<>>
    /\ program_name' = caller_name
    /\ current_semester' = <<>>
    /\ current_category' = "None"
    /\ courses' = <<>>
    /\ parsed' = NoParse
    /\ UNCHANGED <<caller_name, curricula, engine, call, ret, botVars>>

NextReparse == ReadLine \/ EndOfLines \/ ParseAgain

SpecReparse == InitParser /\ [][NextReparse]_vars

\* ------------------------------------------------------------------ inputs

Seqs(S, n) == UNION { [1..k -> S] : k \in 0..n }

\* the pattern p repeated up to length n
Tile(p, n) == [i \in 1..n |-> p[((i - 1) % Len(p)) + 1]]

\* what the long curricula repeat
Patterns ==
    { <<DataEngineering, MachineLearning>>,
      <<DataEngineering, MachineLearning, Leadership>>,
      <<DataEngineering, MachineLearning, DataAnalysis>>,
      <<MachineLearning, DataAnalysis, MachinesForData>>,
      <<MachinesForData, DataEngineering, Leadership, DataAnalysis, MachineLearning>> }

\* every short course list (a curriculum has courses), and the long ones
CourseLists ==
    (Seqs(CourseUniverse, MaxCourses) \ {<<>>}) \cup { Tile(p, LongLen) : p \in Patterns }

\* the curricula the service is constructed over: the duration is the one the
\* parser derives, or a longer programme
Curricula ==
    UNION { { ProgramCurriculum("AI", cs, 0, d) : d \in { MaxSemester(cs), MaxDuration } } :
            cs \in CourseLists }

ProgramIds == {"ai", "ai_product"}

Areas == {"ai", "data"}

\* the skill levels the backgrounds rate an area with (two of 0..MaxLevel; an
\* area a background leaves out stands for level 0)
Levels == {2, MaxLevel}

\* a background rates some of the areas
Backgrounds == UNION { [D -> Levels] : D \in SUBSET Areas }

Strategies == {"deepen", "broaden", "unknown"}

MaxCoursesArgs == {-1, 0, 1, DefaultMaxCourses, LongLen}

\* ------------------------------------------------------------------ the service

InitService ==
    /\ curricula \in { [id \in {"ai"} |-> c] : c \in Curricula }
    /\ engine = ReadyEngine(knowledge_areas, 1)
    /\ call = [op |-> "none"]
    /\ ret = NoCall
    /\ ParserIdle
    /\ BotIdle

\* the service is synchronous: a call is made when no call is in progress
RecommendElectives ==
    \E program_id \in ProgramIds, background \in Backgrounds,
       max_courses \in MaxCoursesArgs, strategy \in Strategies :
        /\ call.op = "none"
        /\ call' = [op |-> "recommend_electives", program_id |-> program_id,
                    background |-> background, max_courses |-> max_courses,
                    strategy |-> strategy]
        /\ ret' = recommend_electives(curricula, program_id, background,
                                      max_courses, strategy)
        /\ UNCHANGED <<curricula, engine, parserVars, botVars>>

GetStudyPlan ==
    \E program_id \in ProgramIds, background \in Backgrounds,
       strategy \in Strategies :
        /\ call.op = "none"
        /\ call' = [op |-> "get_study_plan", program_id |-> program_id,
                    background |-> background, strategy |-> strategy]
        /\ ret' = get_study_plan(curricula, program_id, background, strategy)
        /\ curricula' = CurriculaAfterPlan(curricula, program_id, background, strategy)
        /\ UNCHANGED <<engine, parserVars, botVars>>

\* the caller has used the result (or handled the error) and may call again
CallerContinues ==
    /\ call.op # "none"
    /\ call' = [op |-> "none"]
    /\ ret' = NoCall
    /\ UNCHANGED <<curricula, engine, parserVars, botVars>>

NextService == RecommendElectives \/ GetStudyPlan \/ CallerContinues

SpecService == InitService /\ [][NextService]_vars

\* ------------------------------------------------------------------ __init__

\* before RecommendationService(curricula, config_path) is called
InitConstruct ==
    /\ curricula = <<>>
    /\ engine = NoEngine
    /\ call = [op |-> "none"]
    /\ ret = NoCall
    /\ ParserIdle
    /\ BotIdle

\* RecommendationService(curricula, config_path): self.curricula is assigned,
\* then _load_config either raises out of __init__, and the caller gets no
\* instance, or returns the mapping the index is built from
Construct ==
    \E c \in Curricula, source \in ConfigSources :
        LET loaded == _load_config(source)
        IN  /\ call.op = "none"
            /\ engine.state = "none"
            /\ call' = [op |-> "__init__", curricula |-> [id \in {"ai"} |-> c],
                        config |-> source]
            /\ IF loaded.kind = "raise"
               THEN /\ engine' = FailedEngine(loaded.opens)
                    /\ curricula' = <<>>
                    /\ ret' = Raise(loaded.error)
               ELSE /\ engine' = ReadyEngine(loaded.value, loaded.opens)
                    /\ curricula' = [id \in {"ai"} |-> c]
                    /\ ret' = ReturnValue("RecommendationService")
            /\ UNCHANGED <<parserVars, botVars>>

NextConstruct == Construct

SpecConstruct == InitConstruct /\ [][NextConstruct]_vars

\* ------------------------------------------------------------------ ProgramCurriculum

\* the courses of the universe with credits, as a Course may carry them
CreditedUniverse ==
    { [DataEngineering EXCEPT !.credits = 3], [MachineLearning EXCEPT !.credits = 6],
      [Leadership EXCEPT !.credits = 3], [DataAnalysis EXCEPT !.credits = 6],
      [MachinesForData EXCEPT !.credits = 3] }

\* the credited course of the universe with the id and name of c
Credited(c) == CHOOSE x \in CreditedUniverse : x.id = c.id /\ x.name = c.name

\* course lists with credits, the empty list among them
CreditedLists ==
    Seqs(CreditedUniverse, MaxCourses)
    \cup { [i \in 1..LongLen |-> Credited(Tile(p, LongLen)[i])] : p \in Patterns }

\* the semesters and ids the accessors are asked about
Semesters == 0..MaxDuration
CourseIds == {"1", "2", "3", "9"}

\* a curriculum object, as any caller may build one
InitCurriculum ==
    /\ curricula \in { [id \in {"ai"} |->
                          ProgramCurriculum("AI", cs, SumCredits(cs),
                                            MaxDuration)] : cs \in CreditedLists }
    /\ engine = NoEngine
    /\ call = [op |-> "none"]
    /\ ret = NoCall
    /\ ParserIdle
    /\ BotIdle

GetElectives ==
    /\ call.op = "none"
    /\ call' = [op |-> "get_electives"]
    /\ ret' = ReturnList(get_electives(curricula["ai"]), "return")
    /\ UNCHANGED <<curricula, engine, parserVars, botVars>>

GetCoursesBySemester ==
    \E semester \in Semesters :
        /\ call.op = "none"
        /\ call' = [op |-> "get_courses_by_semester", semester |-> semester]
        /\ ret' = ReturnList(get_courses_by_semester(curricula["ai"], semester), "return")
        /\ UNCHANGED <<curricula, engine, parserVars, botVars>>

GetCompulsoryCoursesBySemester ==
    \E semester \in Semesters :
        /\ call.op = "none"
        /\ call' = [op |-> "get_compulsory_courses_by_semester", semester |-> semester]
        /\ ret' = ReturnList(get_compulsory_courses_by_semester(curricula["ai"], semester),
                             "return")
        /\ UNCHANGED <<curricula, engine, parserVars, botVars>>

GetElectivesBySemester ==
    \E semester \in Semesters :
        /\ call.op = "none"
        /\ call' = [op |-> "get_electives_by_semester", semester |-> semester]
        /\ ret' = ReturnList(get_electives_by_semester(curricula["ai"], semester), "return")
        /\ UNCHANGED <<curricula, engine, parserVars, botVars>>

GetSemesterCredits ==
    \E semester \in Semesters :
        /\ call.op = "none"
        /\ call' = [op |-> "get_semester_credits", semester |-> semester]
        /\ ret' = ReturnValue(get_semester_credits(curricula["ai"], semester))
        /\ UNCHANGED <<curricula, engine, parserVars, botVars>>

GetSemesterWorkload ==
    \E semester \in Semesters :
        /\ call.op = "none"
        /\ call' = [op |-> "get_semester_workload", semester |-> semester]
        /\ ret' = ReturnValue(get_semester_workload(curricula["ai"], semester))
        /\ UNCHANGED <<curricula, engine, parserVars, botVars>>

FindCourseById ==
    \E course_id \in CourseIds :
        /\ call.op = "none"
        /\ call' = [op |-> "find_course_by_id", course_id |-> course_id]
        /\ ret' = ReturnValue(find_course_by_id(curricula["ai"].courses, course_id))
        /\ UNCHANGED <<curricula, engine, parserVars, botVars>>

NextCurriculum ==
    \/ GetElectives
    \/ GetCoursesBySemester
    \/ GetCompulsoryCoursesBySemester
    \/ GetElectivesBySemester
    \/ GetSemesterCredits
    \/ GetSemesterWorkload
    \/ FindCourseById
    \/ CallerContinues

SpecCurriculum == InitCurriculum /\ [][NextCurriculum]_vars

\* ------------------------------------------------------------------ AdmissionBot

\* PROGRAM_MAP. The keys are Russian program titles, written here in Latin
\* letters.
PROGRAM_MAP ==
    [title \in {"Iskusstvennyi intellekt", "Produktovaya razrabotka na osnove II"} |->
        IF title = "Iskusstvennyi intellekt" THEN "ai" ELSE "ai_product"]

\* the text messages of the model (filters.TEXT & ~filters.COMMAND)
Texts ==
    DOMAIN PROGRAM_MAP
    \cup { "4 3 2 3 1", "0 0 0 0 0", "4 3 2", "4 3 9 3 1", "4 3 x 3 1",
           "obyazatelnye kursy 1 semestr" }

\* the updates of a chat: the two commands with a handler, and text messages
Updates == {"/start", "/cancel"} \cup Texts

\* list(map(int, text.split())): the integers, or ValueError for a token
\* that int() refuses
IntTokens(text) ==
    CASE text = "4 3 2 3 1" -> [error |-> FALSE, scores |-> <<4, 3, 2, 3, 1>>]
      [] text = "0 0 0 0 0" -> [error |-> FALSE, scores |-> <<0, 0, 0, 0, 0>>]
      [] text = "4 3 2"     -> [error |-> FALSE, scores |-> <<4, 3, 2>>]
      [] text = "4 3 9 3 1" -> [error |-> FALSE, scores |-> <<4, 3, 9, 3, 1>>]
      [] OTHER              -> [error |-> TRUE, scores |-> <<>>]

\* the inner try: ValueError from int(), from the length or from the range
ScoresOrValueError(text) ==
    LET tokens == IntTokens(text)
    IN  IF tokens.error THEN tokens
        ELSE IF Len(tokens.scores) # 5
                \/ \E i \in 1..Len(tokens.scores) :
                       ~(0 <= tokens.scores[i] /\ tokens.scores[i] <= 5)
        THEN [error |-> TRUE, scores |-> <<>>]
        ELSE tokens

\* the background dict of lines 98-104
BackgroundOf(scores) ==
    [area \in {"math", "programming", "ai", "data", "product"} |->
        CASE area = "math"        -> scores[1]
          [] area = "programming" -> scores[2]
          [] area = "ai"          -> scores[3]
          [] area = "data"        -> scores[4]
          [] OTHER                -> scores[5]]

\* which of a handler run's reply_text calls raise (the message is not
\* delivered): the positions of the calls in the order they are made. A run
\* ends at the first call that raises, or at the next one when that call is
\* inside a try, so the sets are none, one call, or two calls in a row
Deliveries ==
    {{}} \cup { {k} : k \in 1..MaxReplies } \cup { {k, k + 1} : k \in 1..(MaxReplies - 1) }

\* the first of the calls 1..n that raises, 0 when none does
FirstFailure(failing, n) ==
    IF failing \cap (1..n) = {} THEN 0
    ELSE CHOOSE k \in failing \cap (1..n) : \A j \in failing \cap (1..n) : k <= j

\* what a handler run did: it returned a state or let an exception out, the
\* chat data it left, whether it called the recommender and what that gave
Returned(state, data, called, recommended) ==
    [kind |-> "return", state |-> state, data |-> data, called |-> called,
     recommended |-> recommended, excepted |-> FALSE]
Raised(data, called, recommended) ==
    [kind |-> "raise", state |-> "", data |-> data, called |-> called,
     recommended |-> recommended, excepted |-> FALSE]

\* a handler body without try: n replies, then `return state`
Replying(n, state, data, failing) ==
    IF FirstFailure(failing, n) = 0 THEN Returned(state, data, FALSE, <<>>)
    ELSE Raised(data, FALSE, <<>>)

\* start
start(data, failing) == Replying(1, "PROGRAM", data, failing)

\* program_selected
program_selected(text, data, failing) ==
    IF text \notin DOMAIN PROGRAM_MAP THEN Replying(1, "PROGRAM", data, failing)
    ELSE Replying(1, "BACKGROUND",
                  ("program_name" :> text) @@ ("program_id" :> PROGRAM_MAP[text]) @@ data,
                  failing)

\* the `except Exception` block after k replies of the body: one more reply,
\* then `return ConversationHandler.END`; an exception of that reply leaves
\* the handler
ExceptBlock(k, data, called, recommended, failing) ==
    IF (k + 1) \in failing
    THEN [Raised(data, called, recommended) EXCEPT !.excepted = TRUE]
    ELSE [Returned("END", data, called, recommended) EXCEPT !.excepted = TRUE]

\* the body of the outer try on a path with n replies that ends in `return state`
TryReplying(n, state, data, called, recommended, failing) ==
    IF FirstFailure(failing, n) = 0 THEN Returned(state, data, called, recommended)
    ELSE ExceptBlock(FirstFailure(failing, n), data, called, recommended, failing)

\* background_received: the scores, chat_data["background"], the two
\* chat_data lookups (KeyError when a key is missing), the recommender with
\* its defaults, then the replies: one for an empty list, else a heading, one
\* per semester of the list and a closing one
background_received(cur, text, data, failing) ==
    LET scores == ScoresOrValueError(text)
        background == BackgroundOf(scores.scores)
        stored == ("background" :> background) @@ data
    IN  IF scores.error
        THEN TryReplying(1, "BACKGROUND", data, FALSE, <<>>, failing)
        ELSE IF ~({"program_name", "program_id"} \subseteq DOMAIN stored)
        THEN ExceptBlock(0, stored, FALSE, <<>>, failing)
        ELSE LET recommended ==
                     recommend_electives(cur, stored["program_id"], background,
                                         DefaultMaxCourses, "deepen")
                 semesters == { recommended.list[i].semester :
                                    i \in 1..Len(recommended.list) }
             IN  IF recommended.kind = "raise"
                 THEN ExceptBlock(0, stored, TRUE, <<>>, failing)
                 ELSE IF recommended.list = <<>>
                 THEN TryReplying(1, "END", stored, TRUE, <<>>, failing)
                 ELSE TryReplying(2 + Cardinality(semesters), "QUESTIONS", stored,
                                  TRUE, recommended.list, failing)

\* answer_question: every path makes one reply; the conversation ends when
\* the chat data has no program_id or the curricula have no such program
answer_question(cur, data, failing) ==
    IF "program_id" \notin DOMAIN data THEN Replying(1, "END", data, failing)
    ELSE IF data["program_id"] \notin DOMAIN cur THEN Replying(1, "END", data, failing)
    ELSE Replying(1, "QUESTIONS", data, failing)

\* cancel: chat_data.clear(), then the reply, then END
cancel(data, failing) == Replying(1, "END", <<>>, failing)

\* the curricula the bot and its recommender are built over: get_all_programs
\* gives both programs
BotCurricula ==
    { [id \in ProgramIds |->
          IF id = "ai" THEN ProgramCurriculum("AI", p, 0, MaxSemester(p))
          ELSE ProgramCurriculum("AI Product", <<Leadership>>, 0, 2)] :
      p \in Patterns \cup {<<DataEngineering, Leadership>>} }

\* after main has built the bot: no conversation in the chat
InitBot ==
    /\ curricula \in BotCurricula
    /\ engine = ReadyEngine(knowledge_areas, 1)
    /\ call = [op |-> "none"]
    /\ ret = NoCall
    /\ ParserIdle
    /\ BotIdle

\* ConversationHandler after a handler run: the returned state becomes the
\* conversation's state; an exception that leaves the handler leaves the
\* state as it was. The chat data is the dict the handler worked on.
Handle(update, handler, run) ==
    /\ conversation' = IF run.kind = "return" THEN run.state ELSE conversation
    /\ chat_data' = run.data
    /\ handled' = [update |-> update, handler |-> handler, outcome |-> run.kind,
                   from |-> conversation, called |-> run.called,
                   recommended |-> run.recommended, excepted |-> run.excepted]
    /\ UNCHANGED <<serviceVars, parserVars>>

\* entry_points: /start, tried only while the chat has no conversation
Start ==
    \E failing \in Deliveries :
        /\ conversation = "END"
        /\ Handle("/start", "start", start(chat_data, failing))

\* states[PROGRAM]
ProgramSelected ==
    \E text \in Texts, failing \in Deliveries :
        /\ conversation = "PROGRAM"
        /\ Handle(text, "program_selected", program_selected(text, chat_data, failing))

\* states[BACKGROUND]
BackgroundReceived ==
    \E text \in Texts, failing \in Deliveries :
        /\ conversation = "BACKGROUND"
        /\ Handle(text, "background_received",
                  background_received(curricula, text, chat_data, failing))

\* states[QUESTIONS]
AnswerQuestion ==
    \E text \in Texts, failing \in Deliveries :
        /\ conversation = "QUESTIONS"
        /\ Handle(text, "answer_question", answer_question(curricula, chat_data, failing))

\* fallbacks: /cancel, tried in every state of a conversation
Cancel ==
    \E failing \in Deliveries :
        /\ conversation # "END"
        /\ Handle("/cancel", "cancel", cancel(chat_data, failing))

\* an update no handler takes: text or /cancel while the chat has no
\* conversation, /start inside one (allow_reentry is not set)
Unhandled ==
    \E update \in Updates :
        /\ \/ conversation = "END" /\ update # "/start"
           \/ conversation # "END" /\ update = "/start"
        /\ handled' = [update |-> update, handler |-> "none", outcome |-> "ignored",
                       from |-> conversation, called |-> FALSE, recommended |-> <<>>,
                       excepted |-> FALSE]
        /\ UNCHANGED <<conversation, chat_data, serviceVars, parserVars>>

NextBot ==
    \/ Start
    \/ ProgramSelected
    \/ BackgroundReceived
    \/ AnswerQuestion
    \/ Cancel
    \/ Unhandled

SpecBot == InitBot /\ [][NextBot]_vars

\* ------------------------------------------------------------------ what the claims speak of

\* the sum of f over the set S
RECURSIVE SetSum(_, _)
SetSum(f, S) ==
    IF S = {} THEN 0
    ELSE LET a == CHOOSE x \in S : TRUE IN f[a] + SetSum(f, S \ {a})

\* the areas whose lemma set intersects the lemma set of the course name
MatchedAreas(course) ==
    { a \in DOMAIN lemmatized_areas :
        lemmatized_areas[a] \cap normalize_text_to_set(course.name) # {} }

\* the score of a course as the specification defines it
ClaimScore(course, background, strategy) ==
    LET level(a) == IF a \in DOMAIN background THEN background[a] ELSE 0
    IN  SetSum([a \in MatchedAreas(course) |->
                   IF strategy = "deepen" THEN level(a) ELSE 5 - level(a)],
               MatchedAreas(course))

\* the electives of the curriculum with a positive score, in curriculum order
Qualifying(program, background, strategy) ==
    SelectSeq(program.courses,
              LAMBDA c : ~c.is_compulsory /\ ClaimScore(c, background, strategy) > 0)

\* the qualifying electives by score, highest first, curriculum order within a score
RECURSIVE RankedFrom(_, _, _, _)
RankedFrom(k, program, background, strategy) ==
    IF k <= 0 THEN <<>>
    ELSE SelectSeq(program.courses,
                   LAMBDA c : ~c.is_compulsory /\ ClaimScore(c, background, strategy) = k)
         \o RankedFrom(k - 1, program, background, strategy)

Ranked(program, background, strategy) ==
    RankedFrom(5 * Cardinality(DOMAIN lemmatized_areas), program, background, strategy)

\* how often x occurs in the sequence s
Count(s, x) == Cardinality({ i \in 1..Len(s) : s[i] = x })

ValidStrategy(strategy) == strategy \in {"deepen", "broaden"}

\* the last call was recommend_electives for a program of the collection
KnownRecommend ==
    /\ call.op = "recommend_electives"
    /\ call.program_id \in DOMAIN curricula

\* the last call was get_study_plan for a program of the collection
KnownPlan ==
    /\ call.op = "get_study_plan"
    /\ call.program_id \in DOMAIN curricula

\* the curriculum the last call was about
CalledProgram == curricula[call.program_id]

\* ------------------------------------------------------------------ C1

\* C1: for a known program and a strategy in {deepen, broaden}, a call of
\* recommend_electives whose max_courses does not truncate returns exactly the
\* electives whose score (sum over the matching areas of background[area] for
\* deepen, 5 - background[area] for broaden, absent areas counting 0) is > 0:
\* each such elective as often as the curriculum holds it, no compulsory course
\* and no elective with score <= 0.
C1_ExactlyPositiveElectives ==
    (/\ KnownRecommend
     /\ ValidStrategy(call.strategy)
     /\ call.max_courses >=
            Len(Qualifying(CalledProgram, call.background, call.strategy)))
    => /\ ret.kind = "return"
       /\ \A c \in CourseUniverse :
              Count(ret.list, c) =
              Count(Qualifying(CalledProgram, call.background, call.strategy), c)
       /\ \A i \in 1..Len(ret.list) :
              /\ ~ret.list[i].is_compulsory
              /\ ClaimScore(ret.list[i], call.background, call.strategy) > 0

\* a call that returned a course matching two areas (score 7 = 2 + 5) and
\* dropped an elective and a compulsory course whose name matches an area
C1_Witness ==
    /\ KnownRecommend
    /\ call.strategy = "deepen"
    /\ call.max_courses >= Len(Qualifying(CalledProgram, call.background, call.strategy))
    /\ \E i \in 1..Len(ret.list) :
           ClaimScore(ret.list[i], call.background, call.strategy) = 7
    /\ \E i \in 1..Len(CalledProgram.courses) :
           /\ CalledProgram.courses[i].is_compulsory
           /\ MatchedAreas(CalledProgram.courses[i]) # {}
    /\ \E i \in 1..Len(CalledProgram.courses) :
           /\ ~CalledProgram.courses[i].is_compulsory
           /\ ClaimScore(CalledProgram.courses[i], call.background, call.strategy) = 0

\* ------------------------------------------------------------------ C2

\* the entries of s whose score is k
WithScore(s, k, background, strategy) ==
    SelectSeq(s, LAMBDA c : ClaimScore(c, background, strategy) = k)

\* C2: the list recommend_electives returns is ordered by score descending,
\* and the returned electives of one score appear in the order the
\* curriculum's course list has them (the sort is stable on ties).
C2_SortedStable ==
    (KnownRecommend /\ ValidStrategy(call.strategy) /\ ret.kind = "return")
    => /\ \A i, j \in 1..Len(ret.list) :
              i < j => ClaimScore(ret.list[i], call.background, call.strategy)
                       >= ClaimScore(ret.list[j], call.background, call.strategy)
       /\ \A k \in 1..(5 * Cardinality(DOMAIN lemmatized_areas)) :
              IsPrefix(WithScore(ret.list, k, call.background, call.strategy),
                       WithScore(get_electives(CalledProgram), k,
                                 call.background, call.strategy))

\* a returned list with two different courses of one score behind a course of
\* a higher score that the curriculum lists after them
C2_Witness ==
    /\ KnownRecommend
    /\ ValidStrategy(call.strategy)
    /\ ret.kind = "return"
    /\ \E i, j \in 1..Len(ret.list) :
           /\ i < j
           /\ ret.list[i] # ret.list[j]
           /\ ClaimScore(ret.list[i], call.background, call.strategy)
              = ClaimScore(ret.list[j], call.background, call.strategy)
    /\ Len(ret.list) >= 2
    /\ ClaimScore(ret.list[1], call.background, call.strategy)
       > ClaimScore(ret.list[Len(ret.list)], call.background, call.strategy)
    /\ ret.list[1] # Head(get_electives(CalledProgram))

\* ------------------------------------------------------------------ C3

\* C3: every call of recommend_electives whose strategy is neither 'deepen'
\* nor 'broaden' fails with ValueError and returns no list, whatever the
\* curriculum and the background; stated here for the program ids of the
\* collection, where no other rule of the specification answers the call.
C3_InvalidStrategyFails ==
    (KnownRecommend /\ ~ValidStrategy(call.strategy))
    => (ret.kind = "raise" /\ ret.error = "ValueError")

\* ------------------------------------------------------------------ C4

\* C4: for a program id absent from the curricula collection recommend_electives
\* returns an empty list and get_study_plan an empty mapping instead of raising
\* (through the `if not program` return); for a program id of the collection
\* neither operation leaves through that return.
C4_UnknownProgramSoftFail ==
    (call.op \in {"recommend_electives", "get_study_plan"})
    => /\ call.program_id \notin DOMAIN curricula
          => /\ ret.kind = "return"
             /\ ret.list = <<>>
             /\ DOMAIN ret.plan = {}
             /\ ret.path = "unknown_program"
       /\ call.program_id \in DOMAIN curricula
          => ret.path # "unknown_program"

\* get_study_plan for an absent program id and an invalid strategy returned
\* the empty mapping
C4_Witness ==
    /\ call.op = "get_study_plan"
    /\ call.program_id \notin DOMAIN curricula
    /\ call.strategy = "unknown"
    /\ ret.kind = "return"
    /\ DOMAIN ret.plan = {}

\* ------------------------------------------------------------------ C5

\* C5 as stated: for every integer max_courses the result is a prefix of the
\* full ranked list of qualifying electives, its length is
\* min(max_courses, number of qualifying electives), and it never holds more
\* than max_courses courses.
C5_TopMaxCoursesEveryInteger ==
    (KnownRecommend /\ ValidStrategy(call.strategy))
    => /\ ret.kind = "return"
       /\ IsPrefix(ret.list, Ranked(CalledProgram, call.background, call.strategy))
       /\ Len(ret.list) =
              Min(call.max_courses,
                  Len(Ranked(CalledProgram, call.background, call.strategy)))
       /\ Len(ret.list) <= call.max_courses

\* C5 as amended: the result is a prefix of the full ranked list of qualifying
\* electives; for max_courses >= 0 its length is min(max_courses, number of
\* qualifying electives), so it holds at most max_courses courses; for a
\* negative max_courses its length is max(0, number of qualifying electives +
\* max_courses) (the list without its last -max_courses entries).
C5_TopMaxCourses ==
    (KnownRecommend /\ ValidStrategy(call.strategy))
    => LET ranked == Ranked(CalledProgram, call.background, call.strategy)
       IN  /\ ret.kind = "return"
           /\ IsPrefix(ret.list, ranked)
           /\ call.max_courses >= 0
              => /\ Len(ret.list) = Min(call.max_courses, Len(ranked))
                 /\ Len(ret.list) <= call.max_courses
           /\ call.max_courses < 0
              => Len(ret.list) = Max(0, Len(ranked) + call.max_courses)

\* a call with max_courses = 5 that cut a longer ranked list of courses with
\* different scores
C5_Witness ==
    /\ KnownRecommend
    /\ ValidStrategy(call.strategy)
    /\ call.max_courses = DefaultMaxCourses
    /\ Len(ret.list) = DefaultMaxCourses
    /\ LET ranked == Ranked(CalledProgram, call.background, call.strategy)
       IN  /\ Len(ranked) > DefaultMaxCourses
           /\ ranked[1] # ranked[Len(ranked)]

\* ------------------------------------------------------------------ C6

\* C6: for a known program the mapping get_study_plan returns has exactly the
\* keys 1..duration_semesters: every semester of that range is a key, also
\* one without courses, and there is no other key.
C6_PlanKeys ==
    (KnownPlan /\ ret.kind = "return")
    => DOMAIN ret.plan = 1..CalledProgram.duration_semesters

\* a returned plan with a semester without courses and a semester with some
C6_Witness ==
    /\ KnownPlan
    /\ ValidStrategy(call.strategy)
    /\ ret.kind = "return"
    /\ CalledProgram.duration_semesters >= 2
    /\ \E s \in DOMAIN ret.plan : ret.plan[s] = <<>>
    /\ \E s \in DOMAIN ret.plan : ret.plan[s] # <<>>

\* ------------------------------------------------------------------ C7

\* the first 10 entries of the full ranked list
TopTen(program, background, strategy) ==
    LET ranked == Ranked(program, background, strategy)
    IN  SubSeq(ranked, 1, Min(10, Len(ranked)))

\* C7: for every semester s of the returned plan, plan[s] is the compulsory
\* courses of semester s in curriculum order followed by the courses of the
\* top-10 pull whose semester is s, in ranked order; every course of plan[s]
\* has semester s, and with it no elective outside the top-10 pull appears.
C7_PlanContent ==
    (KnownPlan /\ ValidStrategy(call.strategy) /\ ret.kind = "return")
    => \A s \in DOMAIN ret.plan :
           /\ ret.plan[s] =
                  SelectSeq(CalledProgram.courses,
                            LAMBDA c : c.is_compulsory /\ c.semester = s)
                  \o SelectSeq(TopTen(CalledProgram, call.background, call.strategy),
                               LAMBDA c : c.semester = s)
           /\ \A i \in 1..Len(ret.plan[s]) : ret.plan[s][i].semester = s

\* a plan over more than 10 qualifying electives in which one semester holds
\* compulsory courses and electives, an elective the curriculum lists later
\* ranked first, and fewer electives than qualify for that semester
C7_Witness ==
    /\ KnownPlan
    /\ ValidStrategy(call.strategy)
    /\ ret.kind = "return"
    /\ Len(Ranked(CalledProgram, call.background, call.strategy)) > 10
    /\ \E s \in DOMAIN ret.plan :
           LET elect == SelectSeq(ret.plan[s], LAMBDA c : ~c.is_compulsory)
           IN  /\ ret.plan[s] # <<>>
               /\ ret.plan[s][1].is_compulsory
               /\ elect # <<>>
               /\ elect[1] # elect[Len(elect)]
               /\ elect[1] # Head(get_electives(CalledProgram))
               /\ Len(elect)
                  < Len(SelectSeq(Qualifying(CalledProgram, call.background,
                                             call.strategy),
                                  LAMBDA c : c.semester = s))

\* ------------------------------------------------------------------ C8

\* the positions of the semester-marker lines, category-marker lines and
\* course-pattern lines of a line sequence
SemesterLines(ls) == { i \in 1..Len(ls) : SemesterMatch(Strip(ls[i])) # <<>> }
CategoryLines(ls) ==
    { i \in 1..Len(ls) : ContainsCompulsory(Strip(ls[i])) \/ ContainsElective(Strip(ls[i])) }
CoursePatternLines(ls) == { i \in 1..Len(ls) : CourseMatch(Strip(ls[i])) # <<>> }

\* the largest member of a non-empty set of numbers
Greatest(S) == CHOOSE m \in S : \A x \in S : x <= m

\* the integer of the most recent semester marker, <<>> when there is none
MostRecentSemester(ls) ==
    IF SemesterLines(ls) = {} THEN <<>>
    ELSE SemesterMatch(Strip(ls[Greatest(SemesterLines(ls))]))

\* the category of the most recent category marker, "None" when there is none
MostRecentCategory(ls) ==
    IF CategoryLines(ls) = {} THEN "None"
    ELSE IF ContainsCompulsory(Strip(ls[Greatest(CategoryLines(ls))]))
         THEN "compulsory" ELSE "elective"

\* after any prefix the state is that of the most recent markers
C8_StateIsMostRecentMarker ==
    /\ current_semester = MostRecentSemester(lines)
    /\ current_category = MostRecentCategory(lines)

\* a line that is no marker of a kind leaves the state of that kind alone
C8_OnlyMarkersChangeState ==
    (lines' # lines)
    => /\ (Len(lines') \notin SemesterLines(lines'))
              => current_semester' = current_semester
       /\ (Len(lines') \notin CategoryLines(lines'))
              => current_category' = current_category

\* C8: after processing any prefix of the lines, current_semester is the
\* integer of the most recent semester-marker line (unset if there is none)
\* and current_category the category of the most recent category-marker line
\* (unset if there is none); a line that is no semester marker leaves
\* current_semester unchanged, a line that is no category marker leaves
\* current_category unchanged, so a category outlives a semester change.
C8_MarkerState ==
    []C8_StateIsMostRecentMarker /\ [][C8_OnlyMarkersChangeState]_vars

\* a course was emitted under a category whose marker precedes the semester
\* marker in effect, with no category marker in between
C8_Witness ==
    /\ courses # <<>>
    /\ CategoryLines(lines) # {}
    /\ SemesterLines(lines) # {}
    /\ Greatest(CategoryLines(lines)) < Greatest(SemesterLines(lines))
    /\ Greatest(SemesterLines(lines)) < Len(lines)
    /\ Len(lines) \in CoursePatternLines(lines)
    /\ courses[Len(courses)].semester = current_semester[1]
    /\ courses[Len(courses)].is_compulsory = (current_category = "compulsory")

\* ------------------------------------------------------------------ C9

\* C9: when the parser has emitted no course (the empty sequence, a sequence
\* without markers, a sequence with markers but no line of the course
\* pattern) the parse fails with ValueError and returns no curriculum; a
\* ProgramCurriculum with an empty course list is never returned.
C9_NoCoursesFails ==
    (parsed.kind # "none")
    => /\ (\/ courses = <<>>
           \/ lines = <<>>
           \/ (SemesterLines(lines) = {} /\ CategoryLines(lines) = {})
           \/ CoursePatternLines(lines) = {})
          => (parsed.kind = "raise" /\ parsed.error = "ValueError")
       /\ parsed.kind = "return" => parsed.curriculum.courses # <<>>

\* a parse over a semester marker and a category marker but no course line failed
C9_Witness ==
    /\ parsed.kind = "raise"
    /\ SemesterLines(lines) # {}
    /\ CategoryLines(lines) # {}
    /\ Truthy(current_semester)
    /\ CoursePatternLines(lines) = {}

\* ------------------------------------------------------------------ C10

\* the courses the first n lines emit, in line order: a line emits when it has
\* the course pattern and the most recent markers up to and including it give
\* a semester other than 0 and a category
RECURSIVE Emitted(_, _)
Emitted(ls, n) ==
    IF n = 0 THEN <<>>
    ELSE LET upto == SubSeq(ls, 1, n)
             sem == MostRecentSemester(upto)
             cat == MostRecentCategory(upto)
             m == CourseMatch(Strip(ls[n]))
         IN  Emitted(ls, n - 1)
             \o (IF m # <<>> /\ sem # <<>> /\ sem # <<0>> /\ cat # "None"
                 THEN <<[id |-> m[1].code, name |-> m[1].name, semester |-> sem[1],
                         credits |-> 0, is_compulsory |-> (cat = "compulsory"),
                         prerequisites |-> <<>>, description |-> "None",
                         workload_hours |-> m[1].hours]>>
                 ELSE <<>>)

\* C10: a successfully parsed curriculum has duration_semesters equal to the
\* maximum semester over its courses, total_credits 0, and as courses the
\* emitted courses in the order of their lines.
C10_ParsedCurriculum ==
    (parsed.kind = "return")
    => LET cur == parsed.curriculum
       IN  /\ \A i \in 1..Len(cur.courses) :
                  cur.courses[i].semester <= cur.duration_semesters
           /\ \E i \in 1..Len(cur.courses) :
                  cur.courses[i].semester = cur.duration_semesters
           /\ cur.total_credits = 0
           /\ cur.courses = Emitted(lines, Len(lines))

\* a curriculum of two different courses whose later course has the smaller semester
C10_Witness ==
    /\ parsed.kind = "return"
    /\ Len(parsed.curriculum.courses) = 2
    /\ parsed.curriculum.courses[1].semester > parsed.curriculum.courses[2].semester
    /\ parsed.curriculum.courses[1].name # parsed.curriculum.courses[2].name
    /\ parsed.curriculum.duration_semesters = 2

\* ------------------------------------------------------------------ C11

\* C11: every Course the parser emits, whatever the lines (a semester marker
\* with the integer 0 among them), has semester >= 1, and so every
\* successfully parsed curriculum has duration_semesters >= 1.
C11_SemesterPositive ==
    /\ \A i \in 1..Len(courses) : courses[i].semester >= 1
    /\ parsed.kind = "return"
       => /\ parsed.curriculum.duration_semesters >= 1
          /\ \A i \in 1..Len(parsed.curriculum.courses) :
                 parsed.curriculum.courses[i].semester >= 1

\* a parse that returned although a course-pattern line stood under the
\* semester marker 0 and a category: that line emitted nothing
C11_Witness ==
    /\ parsed.kind = "return"
    /\ \E i \in CoursePatternLines(lines) :
           /\ MostRecentSemester(SubSeq(lines, 1, i)) = <<0>>
           /\ MostRecentCategory(SubSeq(lines, 1, i)) # "None"
    /\ Len(parsed.curriculum.courses) = 1

\* ------------------------------------------------------------------ C12

\* the score recommend_electives computes for one course
ComputedScore(course, background, strategy) ==
    ScoreAreas(AreaOrder, 0, normalize_text_to_set(course.name),
               background, strategy).score

\* the background with the level of one area replaced
WithLevel(background, area, level) ==
    [a \in DOMAIN background \cup {area} |->
        IF a = area THEN level ELSE background[a]]

\* the electives of a curriculum whose name matches exactly one area
SingleAreaElectives(program) ==
    { program.courses[i] : i \in
        { j \in 1..Len(program.courses) :
            /\ ~program.courses[j].is_compulsory
            /\ Cardinality(MatchedAreas(program.courses[j])) = 1 } }

\* C12: for an elective whose name matches exactly one area A, all other
\* inputs fixed, the score recommend_electives computes under 'deepen' never
\* decreases as background[A] is raised through 0..5.
C12_DeepenMonotone ==
    (KnownRecommend /\ call.strategy = "deepen")
    => \A c \in SingleAreaElectives(CalledProgram) :
           \A A \in MatchedAreas(c) :
               \A a, b \in 0..5 :
                   a <= b => ComputedScore(c, WithLevel(call.background, A, a), "deepen")
                             <= ComputedScore(c, WithLevel(call.background, A, b), "deepen")

\* a deepen call that returned a single-area elective whose score grows from
\* level 0 to level 5 of its area
C12_Witness ==
    /\ KnownRecommend
    /\ call.strategy = "deepen"
    /\ \E c \in SingleAreaElectives(CalledProgram) :
           /\ \E i \in 1..Len(ret.list) : ret.list[i] = c
           /\ \E A \in MatchedAreas(c) :
                  ComputedScore(c, WithLevel(call.background, A, 0), "deepen")
                  < ComputedScore(c, WithLevel(call.background, A, 5), "deepen")

\* ------------------------------------------------------------------ C13

\* C13: for an elective whose name matches exactly one area A, all other
\* inputs fixed, the score recommend_electives computes under 'broaden' never
\* increases as background[A] is raised through 0..5.
C13_BroadenAntitone ==
    (KnownRecommend /\ call.strategy = "broaden")
    => \A c \in SingleAreaElectives(CalledProgram) :
           \A A \in MatchedAreas(c) :
               \A a, b \in 0..5 :
                   a <= b => ComputedScore(c, WithLevel(call.background, A, a), "broaden")
                             >= ComputedScore(c, WithLevel(call.background, A, b), "broaden")

\* a broaden call that returned a single-area elective whose score falls from
\* level 0 to level 5 of its area
C13_Witness ==
    /\ KnownRecommend
    /\ call.strategy = "broaden"
    /\ \E c \in SingleAreaElectives(CalledProgram) :
           /\ \E i \in 1..Len(ret.list) : ret.list[i] = c
           /\ \E A \in MatchedAreas(c) :
                  ComputedScore(c, WithLevel(call.background, A, 0), "broaden")
                  > ComputedScore(c, WithLevel(call.background, A, 5), "broaden")

\* ------------------------------------------------------------------ C14

\* C14: a second parse of the same lines with the same initial program name
\* ends as the first did: the same ProgramCurriculum (program name, courses
\* in order with all fields, duration) or the same failure; and the second
\* call starts from the state the first started from.
C14_ParseDeterministic ==
    /\ (earlier.kind = "done" /\ parsed.kind # "none")
       => /\ lines = earlier.lines
          /\ caller_name = earlier.name
          /\ parsed = earlier.outcome
    /\ (earlier.kind = "done" /\ lines = <<>>)
       => /\ program_name = earlier.name
          /\ current_semester = <<>>
          /\ current_category = "None"
          /\ courses = <<>>

\* a second parse has ended after a first one that returned a curriculum from
\* a text whose first line matches the course pattern
C14_Witness ==
    /\ earlier.kind = "done"
    /\ earlier.outcome.kind = "return"
    /\ parsed.kind = "return"
    /\ CourseMatch(Strip(lines[1])) # <<>>

\* ------------------------------------------------------------------ C15

\* the positions of cs whose course satisfies Keep
KeptPositions(cs, Keep(_)) == { i \in 1..Len(cs) : Keep(cs[i]) }

\* list holds exactly the courses of cs that satisfy Keep, in the order of cs
IsFilterOf(list, cs, Keep(_)) ==
    LET kept == KeptPositions(cs, Keep)
    IN  /\ Len(list) = Cardinality(kept)
        /\ \A i \in kept : list[Cardinality({ j \in kept : j <= i })] = cs[i]

\* the courses of the curriculum object and the semester asked about
Asked == curricula["ai"].courses
InSemester(c) == c.semester = call.semester

\* C15: each list accessor returns exactly the courses satisfying its filter,
\* in curriculum order; the compulsory and elective lists of a semester are
\* disjoint and together hold exactly the courses of get_courses_by_semester;
\* get_semester_workload and get_semester_credits are the sums over that
\* list, 0 when it is empty.
C15_Accessors ==
    /\ call.op = "get_electives"
       => IsFilterOf(ret.list, Asked, LAMBDA c : ~c.is_compulsory)
    /\ call.op = "get_courses_by_semester"
       => /\ IsFilterOf(ret.list, Asked, InSemester)
          /\ LET compulsory == get_compulsory_courses_by_semester(curricula["ai"], call.semester)
                 electives == get_electives_by_semester(curricula["ai"], call.semester)
             IN  /\ \A i \in 1..Len(compulsory), j \in 1..Len(electives) :
                        compulsory[i] # electives[j]
                 /\ \A c \in CreditedUniverse :
                        Count(ret.list, c) = Count(compulsory, c) + Count(electives, c)
    /\ call.op = "get_compulsory_courses_by_semester"
       => IsFilterOf(ret.list, Asked, LAMBDA c : c.is_compulsory /\ InSemester(c))
    /\ call.op = "get_electives_by_semester"
       => IsFilterOf(ret.list, Asked, LAMBDA c : ~c.is_compulsory /\ InSemester(c))
    /\ call.op = "get_semester_credits"
       => LET kept == KeptPositions(Asked, InSemester)
          IN  /\ ret.value = SetSum([i \in kept |-> Asked[i].credits], kept)
              /\ kept = {} => ret.value = 0
    /\ call.op = "get_semester_workload"
       => LET kept == KeptPositions(Asked, InSemester)
          IN  /\ ret.value = SetSum([i \in kept |-> Asked[i].workload_hours], kept)
              /\ kept = {} => ret.value = 0

\* get_courses_by_semester returned a compulsory and an elective course of a
\* curriculum that also has a course of another semester
C15_Witness ==
    /\ call.op = "get_courses_by_semester"
    /\ \E i, j \in 1..Len(ret.list) :
           ret.list[i].is_compulsory /\ ~ret.list[j].is_compulsory
    /\ Len(ret.list) < Len(Asked)

\* ------------------------------------------------------------------ C16

\* C16: find_course_by_id returns the first course in curriculum order whose
\* id is the argument, also when several courses share the id, and None
\* exactly when no course has the id.
C16_FirstMatch ==
    call.op = "find_course_by_id"
    => LET same == { i \in 1..Len(Asked) : Asked[i].id = call.course_id }
       IN  /\ ret.value = <<>> <=> same = {}
           /\ same # {}
              => ret.value = <<Asked[CHOOSE i \in same : \A j \in same : i <= j]>>

\* the id asked for is shared by two different courses, and one was returned
C16_Witness ==
    /\ call.op = "find_course_by_id"
    /\ ret.value # <<>>
    /\ \E i, j \in 1..Len(Asked) :
           /\ i < j
           /\ Asked[i].id = call.course_id
           /\ Asked[j].id = call.course_id
           /\ Asked[i] # Asked[j]

\* ------------------------------------------------------------------ C17

\* the configuration sources that cannot be loaded: no file, a file that
\* cannot be opened, a file that is not YAML
Unloadable == {"missing", "unreadable", "malformed"}

\* C17: when the keyword configuration source cannot be loaded, __init__
\* ends in an error at the caller, no instance exists (so none with an empty
\* or default index), and the source was opened once only.
C17_ConstructionFails ==
    (call.op = "__init__" /\ call.config \in Unloadable)
    => /\ ret.kind = "raise"
       /\ ret.error \in {"FileNotFoundError", "PermissionError", "YAMLError"}
       /\ engine.state = "failed"
       /\ curricula = <<>>
       /\ engine.lemmatized_areas = <<>>
       /\ engine.opens = 1

\* construction was attempted over a missing configuration file
C17_Witness ==
    /\ call.op = "__init__"
    /\ call.config = "missing"
    /\ ret.kind = "raise"
    /\ ret.error = "FileNotFoundError"

\* ------------------------------------------------------------------ C18

\* the Course the claim describes for the last of the lines ls
DescribedCourse(ls) ==
    LET m == CourseMatch(Strip(ls[Len(ls)]))[1]
    IN  [id |-> m.code, name |-> m.name, semester |-> MostRecentSemester(ls)[1],
         credits |-> 0, is_compulsory |-> (MostRecentCategory(ls) = "compulsory"),
         prerequisites |-> <<>>, description |-> "None", workload_hours |-> m.hours]

\* the last of the lines ls has the course pattern while markers have set both
\* the semester and the category
PatternUnderMarkers(ls) ==
    /\ Len(ls) \in CoursePatternLines(ls)
    /\ MostRecentSemester(ls) # <<>>
    /\ MostRecentCategory(ls) # "None"

\* C18 as stated: a line appends exactly one Course, with the fields
\* described, when it has the course pattern while current_semester and
\* current_category have both been set by markers, and appends none otherwise.
C18_AppendsWhenBothSet ==
    [][(lines' # lines)
       => IF PatternUnderMarkers(lines')
          THEN courses' = Append(courses, DescribedCourse(lines'))
          ELSE courses' = courses]_vars

\* C18: a line appends exactly one Course, with the fields described, when
\* it has the course pattern while current_category has been set by a marker
\* and current_semester has been set by a marker to an integer other than 0,
\* and appends none otherwise.
C18_AppendsWhenBothSetNonZero ==
    [][(lines' # lines)
       => IF PatternUnderMarkers(lines') /\ MostRecentSemester(lines') # <<0>>
          THEN courses' = Append(courses, DescribedCourse(lines'))
          ELSE courses' = courses]_vars

\* the last line read has the course pattern, stands under markers of earlier
\* lines and has appended the course it describes
C18_Witness ==
    /\ lines # <<>>
    /\ PatternUnderMarkers(lines)
    /\ SemesterLines(SubSeq(lines, 1, Len(lines) - 1)) # {}
    /\ CategoryLines(SubSeq(lines, 1, Len(lines) - 1)) # {}
    /\ courses # <<>>
    /\ courses[Len(courses)] = DescribedCourse(lines)

\* ------------------------------------------------------------------ C19

\* C19: a line emits a Course only if a semester marker and a category marker
\* each stand on a line strictly before it.
C19_MarkersStrictlyBefore ==
    [][(lines' # lines /\ courses' # courses)
       => /\ SemesterLines(lines) # {}
          /\ CategoryLines(lines) # {}]_vars

\* ------------------------------------------------------------------ C20

\* the positions of the lines that yield a program name
ProgramLines(ls) == { i \in 1..Len(ls) : ProgramMatch(Strip(ls[i])) # <<>> }

\* the name the last program-name line yields
LastExtractedName(ls) == ProgramMatch(Strip(ls[Greatest(ProgramLines(ls))]))[1]

\* C20 as stated: the program_name of a parsed curriculum is the name of the
\* last program-name line, and it equals the caller-supplied name exactly
\* when no line yields a name.
C20_NameIsCallersIffNoLine ==
    (parsed.kind = "return")
    => /\ ProgramLines(lines) # {}
          => parsed.curriculum.program_name = LastExtractedName(lines)
       /\ parsed.curriculum.program_name = caller_name <=> ProgramLines(lines) = {}

\* C20: the program_name of a parsed curriculum is the name of the last
\* program-name line when there is one, and the caller-supplied name when
\* there is none.
C20_LastWriterWins ==
    (parsed.kind = "return")
    => /\ ProgramLines(lines) # {}
          => parsed.curriculum.program_name = LastExtractedName(lines)
       /\ ProgramLines(lines) = {}
          => parsed.curriculum.program_name = caller_name

\* a parsed curriculum over two program-name lines with different names, the
\* later of which differs from the caller's name
C20_Witness ==
    /\ parsed.kind = "return"
    /\ \E i, j \in ProgramLines(lines) :
           /\ i < j
           /\ j = Greatest(ProgramLines(lines))
           /\ ProgramMatch(Strip(lines[i])) # ProgramMatch(Strip(lines[j]))
    /\ parsed.curriculum.program_name # caller_name

\* ------------------------------------------------------------------ C21

\* C21: a recommend_electives or get_study_plan call leaves the curricula
\* collection (every course list, its order, every course field) and the
\* keyword area index as they were; the appends of get_study_plan to a
\* semester's list do not reach the curriculum's own course list.
C21_CallsLeaveCurricula ==
    [][(call'.op \in {"recommend_electives", "get_study_plan"})
       => /\ curricula' = curricula
          /\ engine' = engine]_vars

\* get_study_plan has appended an elective behind a compulsory course of a
\* semester's list
C21_Witness ==
    /\ KnownPlan
    /\ ret.kind = "return"
    /\ \E semester \in DOMAIN ret.plan :
           LET compulsory == get_compulsory_courses_by_semester(CalledProgram, semester)
           IN  /\ compulsory # <<>>
               /\ Len(ret.plan[semester]) > Len(compulsory)
               /\ ~ret.plan[semester][Len(ret.plan[semester])].is_compulsory

\* ------------------------------------------------------------------ C22

\* the chat data holds a program_id of PROGRAM_MAP together with its program_name
HoldsProgram(data) ==
    /\ {"program_id", "program_name"} \subseteq DOMAIN data
    /\ data["program_name"] \in DOMAIN PROGRAM_MAP
    /\ data["program_id"] = PROGRAM_MAP[data["program_name"]]

\* in BACKGROUND and in QUESTIONS the chat data holds the chosen program
C22_ProgramHeld ==
    conversation \in {"BACKGROUND", "QUESTIONS"} => HoldsProgram(chat_data)

\* BACKGROUND is entered only by program_selected with a text of PROGRAM_MAP,
\* QUESTIONS only from BACKGROUND or QUESTIONS
C22_Entries ==
    /\ (conversation' = "BACKGROUND" /\ conversation # "BACKGROUND")
       => /\ handled'.handler = "program_selected"
          /\ handled'.update \in DOMAIN PROGRAM_MAP
    /\ conversation' = "QUESTIONS" => conversation \in {"BACKGROUND", "QUESTIONS"}

\* a /cancel the cancel handler has taken clears the chat data and ends the
\* conversation
C22_CancelClearsAndEnds ==
    (handled' # handled /\ handled'.handler = "cancel")
    => /\ chat_data' = <<>>
       /\ conversation' = "END"

\* C22: whenever the conversation state is BACKGROUND or QUESTIONS the chat
\* data holds a program_id of PROGRAM_MAP with its program_name; BACKGROUND
\* is entered only by program_selected with a text in PROGRAM_MAP, QUESTIONS
\* only from BACKGROUND or QUESTIONS, and /cancel both clears the chat data
\* and ends the conversation.
C22_ConversationHoldsProgram ==
    /\ []C22_ProgramHeld
    /\ [][C22_Entries /\ C22_CancelClearsAndEnds]_vars

\* ------------------------------------------------------------------ C23

\* the texts that consist of exactly five integers, each in 0..5
FiveScores == {"4 3 2 3 1", "0 0 0 0 0"}

\* the recommender is called only for five integers in 0..5
C23_CalledOnlyForScores ==
    handled'.called => handled'.update \in FiveScores

\* any other text leaves the conversation in BACKGROUND and the chat data alone
C23_OtherTextStays ==
    handled'.update \notin FiveScores
    => /\ conversation' = "BACKGROUND"
       /\ chat_data' = chat_data

\* on five scores: QUESTIONS exactly for a non-empty list handled without an
\* exception, END for an empty list or an exception
C23_ScoresMoveOrEnd ==
    handled'.update \in FiveScores
    => /\ conversation' = "QUESTIONS"
          <=> (handled'.recommended # <<>> /\ ~handled'.excepted)
       /\ (handled'.recommended = <<>> \/ handled'.excepted) => conversation' = "END"

\* C23: background_received calls the recommender only when the message is
\* exactly five integers each in 0..5; for any other text it stays in
\* BACKGROUND and leaves the chat data unchanged; on valid input it moves to
\* QUESTIONS exactly when the recommendation list is non-empty, and ends the
\* conversation when the list is empty or an exception is raised while the
\* message is handled.
C23_BackgroundReceived ==
    [][(handled' # handled /\ handled'.handler = "background_received")
       => /\ C23_CalledOnlyForScores
          /\ C23_OtherTextStays
          /\ C23_ScoresMoveOrEnd]_vars

====
